---- MODULE Spec2Model ----
(***************************************************************************)
(* ciftify_vol_result: the settings resolver (UserSettings) and the        *)
(* command sequencer (run_ciftify_vol_result) of                          *)
(* ciftify/bin/ciftify_vol_result.py, with main's temporary directory and  *)
(* exit code.                                                              *)
(*                                                                         *)
(* Text that the program tests by suffix (the output name) is a sequence   *)
(* of one-character strings; every other path is a string.                 *)
(***************************************************************************)
EXTENDS Integers, Sequences, FiniteSets, TLC

VARIABLES
    arguments,   \* docopt's dictionary of this run
    fs,          \* the file system: files, writable directories, voxel spacing
    pc,          \* main's position
    settings,    \* the UserSettings object, once constructed
    tmpdir,      \* whether the TempDir directory exists on disk
    cmds,        \* the external commands issued so far, with their exit codes
    exitcode,    \* the process exit code, -1 while the process runs
    arguments2,  \* a second run over the same file system (path resolution only)
    settings2    \* the outcome of the second run's UserSettings

vars == <<arguments, fs, pc, settings, tmpdir, cmds, exitcode, arguments2, settings2>>

None == "None"

\* the value of a variable that holds no record yet
Unset == [unset |-> TRUE]

\* ---------------------------------------------------------------- bounds

\* the longest output name, in chunks of NameChunks
MaxParts == 3
\* how many of the files a run refers to may be absent from the disk
MaxMissing == 1

\* ------------------------------------------------------------ characters

RECURSIVE Str(_)
\* a character sequence as one string
Str(cs) == IF cs = <<>> THEN "" ELSE Head(cs) \o Str(Tail(cs))

\* str.endswith
endswith(s, suffix) ==
    /\ Len(s) >= Len(suffix)
    /\ SubSeq(s, Len(s) - Len(suffix) + 1, Len(s)) = suffix

dscalar_nii == <<"d","s","c","a","l","a","r",".","n","i","i">>
dtseries_nii == <<"d","t","s","e","r","i","e","s",".","n","i","i">>
dot_dscalar_nii == <<".">> \o dscalar_nii
dot_dtseries_nii == <<".">> \o dtseries_nii

\* the process's working directory, against which relative names resolve
cwd == <<"/","c","w","d">>

RECURSIVE split(_, _)
\* str.split(sep) for a one-character separator
split(s, acc) ==
    IF s = <<>> THEN <<acc>>
    ELSE IF Head(s) = "/" THEN <<acc>> \o split(Tail(s), <<>>)
    ELSE split(Tail(s), Append(acc, Head(s)))

RECURSIVE resolve(_, _)
\* the walk of os.path.realpath over the components of a path on a file
\* system without symbolic links: empty and '.' components are dropped and
\* '..' steps up, stopping at the root
resolve(comps, acc) ==
    IF comps = <<>> THEN acc
    ELSE LET c == Head(comps) IN
         IF c = <<>> \/ c = <<".">> THEN resolve(Tail(comps), acc)
         ELSE IF c = <<".", ".">>
              THEN resolve(Tail(comps),
                           IF acc = <<>> THEN acc ELSE SubSeq(acc, 1, Len(acc) - 1))
              ELSE resolve(Tail(comps), Append(acc, c))

RECURSIVE joinComps(_)
joinComps(comps) ==
    IF comps = <<>> THEN <<>> ELSE <<"/">> \o Head(comps) \o joinComps(Tail(comps))

\* the components of the absolute, normalised form of a name
realcomps(name) ==
    resolve(split(IF name # <<>> /\ Head(name) = "/" THEN name
                  ELSE cwd \o <<"/">> \o name, <<>>), <<>>)

\* os.path.realpath
realpath(name) ==
    IF realcomps(name) = <<>> THEN <<"/">> ELSE joinComps(realcomps(name))

\* os.path.dirname of an absolute normalised path
dirname(path) ==
    LET comps == resolve(split(path, <<>>), <<>>) IN
    IF Len(comps) <= 1 THEN <<"/">> ELSE joinComps(SubSeq(comps, 1, Len(comps) - 1))

\* ------------------------------------------------ UserSettings, the name

\* os.access(output_dir, os.W_OK)
os_access_W(dir) == dir \in fs.writable

\* whether get_output_filename appends the extension
needs_extension(outputname) ==
    /\ ~endswith(outputname, dscalar_nii)
    /\ ~endswith(outputname, dtseries_nii)

\* UserSettings.get_output_filename: the name, or the exit it makes
get_output_filename(user_outputname) ==
    LET outputname == realpath(user_outputname)
        output_dir == dirname(outputname)
    IN  IF ~os_access_W(output_dir) THEN [exited |-> TRUE, code |-> 1]
        ELSE IF needs_extension(outputname)
             THEN [exited |-> FALSE, value |-> outputname \o dot_dscalar_nii]
             ELSE [exited |-> FALSE, value |-> outputname]

\* ------------------------------------------------------- ciftify.config

\* ciftify.config.find_ciftify_global: the installed template data
find_ciftify_global == "/ciftify/data"

\* ciftify.config.find_HCP_S1200_GroupAvg
find_HCP_S1200_GroupAvg == find_ciftify_global \o "/" \o "HCP_S1200_GroupAvg_v1"

\* ciftify.config.find_fsl
find_fsl == "/fsl"

\* os.path.join of relative components
join2(a, b) == a \o "/" \o b
join4(a, b, c, d) == join2(join2(join2(a, b), c), d)
join5(a, b, c, d, e) == join2(join4(a, b, c, d), e)

\* ----------------------------------------------- UserSettings, the paths

\* WorkDirSettings.__init__: the work directory of the run
WorkDirSettings(args) == args.work_dir

use_ciftify_global(hcp_subject) == hcp_subject = "HCP_S1200_GroupAvg"

get_subject(subject) == IF subject = "HCP_S1200_GroupAvg" THEN "S1200" ELSE subject

\* get_surf_dir reading the work directory whatever the subject
get_surf_dir_alwaysWorkDir(global, work_dir, subject) ==
    join4(work_dir, subject, "MNINonLinear", "fsaverage_LR32k")

get_surf_dir(global, work_dir, subject) ==
    IF global THEN find_HCP_S1200_GroupAvg
    ELSE join4(work_dir, subject, "MNINonLinear", "fsaverage_LR32k")

get_surface_mesh(global, use_MSMall) ==
    IF global THEN "_MSMAll.32k_fs_LR"
    ELSE IF use_MSMall THEN "_MSMAll.32k_fs_LR" ELSE ".32k_fs_LR"

\* os.path.exists / os.path.isfile
os_path_exists(path) == path \in fs.files

atlas_vol_path(global, work_dir, subject) ==
    IF global
    THEN join2(join2(find_ciftify_global, "91282_Greyordinates"), "Atlas_ROIs.2.nii.gz")
    ELSE join5(work_dir, subject, "MNINonLinear", "ROIs", "Atlas_ROIs.2.nii.gz")

\* get_atlas_vol returning the path without looking for it
get_atlas_vol_unchecked(global, work_dir, subject) ==
    [exited |-> FALSE, value |-> atlas_vol_path(global, work_dir, subject)]

get_atlas_vol(global, work_dir, subject) ==
    LET atlas_vol == atlas_vol_path(global, work_dir, subject) IN
    IF ~os_path_exists(atlas_vol) THEN [exited |-> TRUE, code |-> 1]
    ELSE [exited |-> FALSE, value |-> atlas_vol]

surf_roi_path(global, surf_dir, subject, hemi) ==
    IF global
    THEN join2(join2(find_ciftify_global, "91282_Greyordinates"),
               hemi \o ".atlasroi.32k_fs_LR.shape.gii")
    ELSE join2(surf_dir, subject \o "." \o hemi \o ".atlasroi.32k_fs_LR.shape.gii")

\* get_surf_roi returning the path without looking for it
get_surf_roi_unchecked(global, surf_dir, subject, hemi) ==
    [exited |-> FALSE, value |-> surf_roi_path(global, surf_dir, subject, hemi)]

get_surf_roi(global, surf_dir, subject, hemi) ==
    LET surf_roi == surf_roi_path(global, surf_dir, subject, hemi) IN
    IF ~os_path_exists(surf_roi) THEN [exited |-> TRUE, code |-> 1]
    ELSE [exited |-> FALSE, value |-> surf_roi]

get_surface_nii(args) ==
    LET surface_nii == IF args.surface_vol = None THEN args.vol ELSE args.surface_vol IN
    IF ~os_path_exists(surface_nii) THEN [exited |-> TRUE, code |-> 1]
    ELSE IF surface_nii = None THEN [exited |-> TRUE, code |-> 1]
    ELSE [exited |-> FALSE, value |-> surface_nii]

\* ciftify.niio.voxel_spacing
voxel_spacing(path) == fs.spacing[path]

\* the voxel-size test of get_subcortical_nii made whatever the resample flag
spacing_rejected_always(resample, subcortical_nii, atlas_vol) ==
    voxel_spacing(subcortical_nii) # voxel_spacing(atlas_vol)

\* whether get_subcortical_nii exits over the voxel sizes
spacing_rejected(resample, subcortical_nii, atlas_vol) ==
    /\ ~resample
    /\ voxel_spacing(subcortical_nii) # voxel_spacing(atlas_vol)

get_subcortical_nii(args, resample, atlas_vol) ==
    LET subcortical_nii ==
            IF args.subcortical_vol = None THEN args.vol ELSE args.subcortical_vol
    IN  IF ~os_path_exists(subcortical_nii) THEN [exited |-> TRUE, code |-> 1]
        ELSE IF spacing_rejected(resample, subcortical_nii, atlas_vol) THEN [exited |-> TRUE, code |-> 1]
        ELSE [exited |-> FALSE, value |-> subcortical_nii]

\* UserSettings.__init__: the settings, or [exited |-> TRUE, code |-> 1] when a getter exits
UserSettings(args) ==
    LET work_dir == WorkDirSettings(args)
        out      == get_output_filename(args.output)
        global   == use_ciftify_global(args.subject)
        subject  == get_subject(args.subject)
        surf_dir == get_surf_dir(global, work_dir, subject)
        mesh     == get_surface_mesh(global, args.msmall)
        atlas    == get_atlas_vol(global, work_dir, subject)
        roi_L    == get_surf_roi(global, surf_dir, subject, "L")
        roi_R    == get_surf_roi(global, surf_dir, subject, "R")
        surface  == get_surface_nii(args)
    IN  IF out.exited THEN [exited |-> TRUE, code |-> 1]
        ELSE IF atlas.exited THEN [exited |-> TRUE, code |-> 1]
        ELSE IF roi_L.exited THEN [exited |-> TRUE, code |-> 1]
        ELSE IF roi_R.exited THEN [exited |-> TRUE, code |-> 1]
        ELSE IF surface.exited THEN [exited |-> TRUE, code |-> 1]
        ELSE LET subcortical == get_subcortical_nii(args, args.resample, atlas.value) IN
             IF subcortical.exited THEN [exited |-> TRUE, code |-> 1]
             ELSE [ exited             |-> FALSE,
                    work_dir           |-> work_dir,
                    integer_labels     |-> args.integer_labels,
                    resample           |-> args.resample,
                    dilate_mm          |-> args.dilate,
                    outputname         |-> out.value,
                    use_ciftify_global |-> global,
                    subject            |-> subject,
                    surf_dir           |-> surf_dir,
                    surf_mesh          |-> mesh,
                    atlas_vol          |-> atlas.value,
                    surf_roi_L         |-> roi_L.value,
                    surf_roi_R         |-> roi_R.value,
                    surface_nii        |-> surface.value,
                    subcortical_nii    |-> subcortical.value ]

\* ------------------------------------------- run_ciftify_vol_result

\* the path of the directory that ciftify.utils.TempDir makes
TempDirPath == "/tmp/tmpdir"

\* a truth test of an option value: None and '' are false
truthy(v) == v # None /\ v # ""

surf_file(s, hemi, kind) ==
    join2(s.surf_dir, s.subject \o "." \o hemi \o "." \o kind \o s.surf_mesh \o ".surf.gii")

\* the mapping mode with the two branches exchanged
mapping_mode_swapped(s, hemi) ==
    IF ~s.integer_labels THEN <<"-enclosing">>
    ELSE <<"-ribbon-constrained", surf_file(s, hemi, "white"), surf_file(s, hemi, "pial")>>

\* the arguments that choose the mapping mode
mapping_mode(s, hemi) ==
    IF s.integer_labels THEN <<"-enclosing">>
    ELSE <<"-ribbon-constrained", surf_file(s, hemi, "white"), surf_file(s, hemi, "pial")>>

surf_mapping_cmd(s, hemi) ==
    << "wb_command", "-volume-to-surface-mapping",
       s.surface_nii,
       surf_file(s, hemi, "midthickness"),
       join2(TempDirPath, hemi \o ".func.gii") >> \o mapping_mode(s, hemi)

resample_cmd(s) ==
    << "wb_command", "-volume-affine-resample",
       s.subcortical_nii,
       join2(join2(find_fsl, "etc"), "flirtsch/ident.mat"),
       s.atlas_vol,
       IF s.integer_labels THEN "ENCLOSING_VOXEL" ELSE "CUBIC",
       join2(TempDirPath, "input_nii_r.nii.gz") >>

\* the volume given to the dense step when it is always the original one
rinput_subcortical_original(s) == s.subcortical_nii

\* the volume given to the dense step
rinput_subcortical(s) ==
    IF s.resample THEN join2(TempDirPath, "input_nii_r.nii.gz") ELSE s.subcortical_nii

dense_out(s) ==
    IF truthy(s.dilate_mm)
    THEN IF endswith(s.outputname, dtseries_nii)
         THEN join2(TempDirPath, "dense1.dtseries.nii")
         ELSE join2(TempDirPath, "dense1.dscalar.nii")
    ELSE Str(s.outputname)

wb_subcommand(s) ==
    IF endswith(s.outputname, dtseries_nii)
    THEN "-cifti-create-dense-timeseries" ELSE "-cifti-create-dense-scalar"

dense_cmd(s) ==
    << "wb_command", wb_subcommand(s),
       dense_out(s),
       "-volume", rinput_subcortical(s), s.atlas_vol,
       "-left-metric", join2(TempDirPath, "L.func.gii"),
       "-roi-left", s.surf_roi_L,
       "-right-metric", join2(TempDirPath, "R.func.gii"),
       "-roi-right", s.surf_roi_R >>

dilate_cmd(s) ==
    << "wb_command", "-cifti-dilate",
       dense_out(s), "COLUMN",
       s.dilate_mm, s.dilate_mm,
       Str(s.outputname),
       "-left-surface", surf_file(s, "L", "midthickness"),
       "-right-surface", surf_file(s, "R", "midthickness") >>
    \o (IF s.integer_labels THEN <<"-nearest">> ELSE <<>>)

\* the statement that follows a stage of run_ciftify_vol_result
after(stage, s) ==
    CASE stage = "map_L"    -> "map_R"
      [] stage = "map_R"    -> IF s.resample THEN "resample" ELSE "dense"
      [] stage = "resample" -> "dense"
      [] stage = "dense"    -> IF truthy(s.dilate_mm) THEN "dilate" ELSE "returned"
      [] stage = "dilate"   -> "returned"

\* ciftify.utils.run: the command runs to its end; an exit code other than
\* zero fails the process
run(rc) == IF rc = 0 THEN "ok" ELSE "raise"

\* a stage that goes on to the next statement whatever run did
step_swallowing(stage, outcome, s) == after(stage, s)

\* where run_ciftify_vol_result is after the run call of a stage: nothing
\* in it catches what run raises
step(stage, outcome, s) == IF outcome = "raise" THEN "raised" ELSE after(stage, s)

\* the value run_ciftify_vol_result returns: it has no return statement
run_ciftify_vol_result_ret == None

\* the exit code that sys.exit(arg) gives the process
sys_exit(arg) == IF arg = None THEN 0 ELSE arg

\* --------------------------------------------------------------- main

\* ciftify.utils.TempDir.__exit__: the directory is removed
TempDir_exit(exists) == FALSE

\* a temporary directory removed by a statement after the call, which an
\* exception skips
leave_with_onlyOnReturn(how, exists) ==
    IF how = "returned" THEN TempDir_exit(exists) ELSE exists

\* main's with statement: __exit__ runs however the block is left
leave_with(how, exists) == TempDir_exit(exists)

ExitCodes == {0, 1}

\* settings = UserSettings(arguments)
Construct ==
    /\ pc = "start"
    /\ settings' = UserSettings(arguments)
    /\ IF settings'.exited
       THEN pc' = "done" /\ exitcode' = settings'.code
       ELSE pc' = "enter_with" /\ exitcode' = exitcode
    /\ UNCHANGED <<arguments, fs, tmpdir, cmds, arguments2, settings2>>

\* with ciftify.utils.TempDir() as tmpdir
EnterTempDir ==
    /\ pc = "enter_with"
    /\ tmpdir' = TRUE
    /\ pc' = "map_L"
    /\ UNCHANGED <<arguments, fs, settings, cmds, exitcode, arguments2, settings2>>

\* one pass of the loop over the hemispheres
ProjectSurface ==
    \E hemi \in {"L", "R"}, rc \in ExitCodes :
        /\ pc = "map_" \o hemi
        /\ cmds' = Append(cmds, [argv |-> surf_mapping_cmd(settings, hemi), rc |-> rc])
        /\ pc' = step(pc, run(rc), settings)
        /\ UNCHANGED <<arguments, fs, settings, tmpdir, exitcode, arguments2, settings2>>

ResampleVolume ==
    \E rc \in ExitCodes :
        /\ pc = "resample"
        /\ cmds' = Append(cmds, [argv |-> resample_cmd(settings), rc |-> rc])
        /\ pc' = step(pc, run(rc), settings)
        /\ UNCHANGED <<arguments, fs, settings, tmpdir, exitcode, arguments2, settings2>>

CreateDense ==
    \E rc \in ExitCodes :
        /\ pc = "dense"
        /\ cmds' = Append(cmds, [argv |-> dense_cmd(settings), rc |-> rc])
        /\ pc' = step(pc, run(rc), settings)
        /\ UNCHANGED <<arguments, fs, settings, tmpdir, exitcode, arguments2, settings2>>

Dilate ==
    \E rc \in ExitCodes :
        /\ pc = "dilate"
        /\ cmds' = Append(cmds, [argv |-> dilate_cmd(settings), rc |-> rc])
        /\ pc' = step(pc, run(rc), settings)
        /\ UNCHANGED <<arguments, fs, settings, tmpdir, exitcode, arguments2, settings2>>

\* the with block is left, by its end or by what run raised
LeaveTempDir ==
    /\ pc \in {"returned", "raised"}
    /\ tmpdir' = leave_with(pc, tmpdir)
    /\ IF pc = "returned"
       THEN pc' = "sys_exit" /\ exitcode' = exitcode
       ELSE pc' = "done" /\ exitcode' = 1
    /\ UNCHANGED <<arguments, fs, settings, cmds, arguments2, settings2>>

\* sys.exit(ret)
SysExit ==
    /\ pc = "sys_exit"
    /\ exitcode' = sys_exit(run_ciftify_vol_result_ret)
    /\ pc' = "done"
    /\ UNCHANGED <<arguments, fs, settings, tmpdir, cmds, arguments2, settings2>>

\* the second run's UserSettings(arguments2), over the same file system
Construct2 ==
    /\ settings2 = Unset
    /\ settings2' = UserSettings(arguments2)
    /\ UNCHANGED <<arguments, fs, pc, settings, tmpdir, cmds, exitcode, arguments2>>

\* ------------------------------------------------------------ the inputs

Subjects == {"sub01", "HCP_S1200_GroupAvg"}
WorkDirs == {"/wd", "/wd2"}
Spacing2mm == <<2, 2, 2>>
Spacings == {Spacing2mm, <<1, 1, 1>>}

RECURSIVE concat(_)
concat(parts) == IF parts = <<>> THEN <<>> ELSE Head(parts) \o concat(Tail(parts))

NameChunks == {<<"a">>, <<"/">>, <<".">>, dscalar_nii, dtseries_nii}

\* every name of at most MaxParts chunks
Names == {concat(parts) : parts \in UNION {[1..n -> NameChunks] : n \in 1..MaxParts}}

\* the output names of the runs whose commands are followed
OutputNames ==
    { <<"o","u","t">>,
      <<"m",".">> \o dscalar_nii,
      <<"/","o","/","t",".">> \o dtseries_nii }

OutputDirs == {cwd, <<"/","o">>}
NameDirs == {<<"/">>, cwd, cwd \o <<"/","a">>}

ArgsOver(workdirs, names) ==
    [ subject         : Subjects,
      work_dir        : workdirs,
      integer_labels  : BOOLEAN,
      resample        : BOOLEAN,
      dilate          : {None, "4"},
      msmall          : BOOLEAN,
      vol             : {"/data/vol.nii.gz"},
      surface_vol     : {None, "/data/surface.nii.gz"},
      subcortical_vol : {None, "/data/subcortical.nii.gz"},
      output          : names ]

\* the input volumes a run names
InputVolumes(args) == {args.vol, args.surface_vol, args.subcortical_vol} \ {None}

\* the surface meshes of a run, by kind
Meshes(args, kinds) ==
    LET global == use_ciftify_global(args.subject)
        s == [ surf_dir  |-> get_surf_dir(global, args.work_dir, get_subject(args.subject)),
               subject   |-> get_subject(args.subject),
               surf_mesh |-> get_surface_mesh(global, args.msmall) ]
    IN  {surf_file(s, hemi, kind) : hemi \in {"L", "R"}, kind \in kinds}

\* the atlas volume and the two ROI masks of a run
Templates(args) ==
    LET global  == use_ciftify_global(args.subject)
        subject == get_subject(args.subject)
        surf_dir == get_surf_dir(global, args.work_dir, subject)
    IN  { atlas_vol_path(global, args.work_dir, subject),
          surf_roi_path(global, surf_dir, subject, "L"),
          surf_roi_path(global, surf_dir, subject, "R") }

\* every file a run may hand to a command as input
Referenced(args) ==
    InputVolumes(args) \cup Templates(args)
        \cup Meshes(args, {"midthickness", "white", "pial"})

\* the volume the subcortical step reads
SubcorticalInput(args) ==
    IF args.subcortical_vol = None THEN args.vol ELSE args.subcortical_vol

RECURSIVE SubsetsUpTo(_, _)
\* the subsets of S of at most k elements
SubsetsUpTo(S, k) ==
    IF k = 0 THEN {{}}
    ELSE LET smaller == SubsetsUpTo(S, k - 1) IN
         smaller \cup {m \cup {x} : m \in smaller, x \in S}

\* a disk holding the files of `files` but one of the sets of `absent`, with
\* one of `writables` as its writable directories; the subcortical input
\* has one of the voxel sizes `sizes`, every other volume 2 mm
Disks(files, absent, vols, writables, subcortical, sizes) ==
    { [ files    |-> files \ missing,
        writable |-> w,
        spacing  |-> [p \in vols |-> IF p = subcortical THEN sp ELSE Spacing2mm] ]
      : missing \in absent, w \in writables, sp \in sizes }

Started ==
    /\ pc = "start"
    /\ settings = Unset
    /\ tmpdir = FALSE
    /\ cmds = <<>>
    /\ exitcode = -1
    /\ settings2 = Unset

\* --HCP-MSMAll is read for a subject of the work directory only, and at most
\* one of --surface-vol and --subcortical-vol is given
Init ==
    /\ arguments \in { a \in ArgsOver({"/wd"}, OutputNames) :
                          /\ use_ciftify_global(a.subject) => ~a.msmall
                          /\ a.surface_vol = None \/ a.subcortical_vol = None }
    /\ arguments2 = Unset
    /\ fs \in Disks(Referenced(arguments),
                    SubsetsUpTo(Referenced(arguments), MaxMissing),
                    InputVolumes(arguments) \cup Templates(arguments),
                    {OutputDirs, {cwd}},
                    SubcorticalInput(arguments), Spacings)
    /\ Started

Next ==
    \/ Construct
    \/ EnterTempDir
    \/ ProjectSurface
    \/ ResampleVolume
    \/ CreateDense
    \/ Dilate
    \/ LeaveTempDir
    \/ SysExit

Spec == Init /\ [][Next]_vars

\* runs over every output name, with all files in place
InitName ==
    /\ arguments \in { a \in ArgsOver({"/wd"}, Names) :
                          /\ a.subject = "sub01" /\ ~a.integer_labels /\ a.resample
                          /\ ~a.msmall /\ a.surface_vol = None
                          /\ a.subcortical_vol = None }
    /\ arguments2 = Unset
    /\ fs \in Disks(Referenced(arguments), {{}},
                    InputVolumes(arguments) \cup Templates(arguments),
                    SUBSET NameDirs,
                    SubcorticalInput(arguments), {Spacing2mm})
    /\ Started

SpecName == InitName /\ [][Next]_vars

\* two runs that differ in the work directory alone, on one disk
InitPaths ==
    /\ arguments \in { a \in ArgsOver(WorkDirs, OutputNames) :
                          a.output = <<"o","u","t">> /\ a.dilate = None }
    /\ \E w \in WorkDirs \ {arguments.work_dir} :
           arguments2 = [arguments EXCEPT !.work_dir = w]
    /\ fs \in Disks(Referenced(arguments) \cup Referenced(arguments2),
                    SubsetsUpTo(Referenced(arguments) \cup Referenced(arguments2),
                                MaxMissing),
                    InputVolumes(arguments) \cup Templates(arguments)
                        \cup Templates(arguments2),
                    {OutputDirs, {}},
                    SubcorticalInput(arguments), Spacings)
    /\ Started

NextPaths == Construct \/ Construct2

SpecPaths == InitPaths /\ [][NextPaths]_vars

\* --------------------------------------------------- words of the claims

SurfaceInput(args) == IF args.surface_vol = None THEN args.vol ELSE args.surface_vol

\* the paths that UserSettings looks for on the disk
CheckedInputs(args) == {SurfaceInput(args), SubcorticalInput(args)} \cup Templates(args)

\* the paths the commands of a run take as input and do not write themselves
RunInputs(args) ==
    CheckedInputs(args)
        \cup Meshes(args, IF args.integer_labels THEN {"midthickness"}
                          ELSE {"midthickness", "white", "pial"})

OutputDirWritable(args) == dirname(realpath(args.output)) \in fs.writable

SpacingMismatch(args) ==
    LET global == use_ciftify_global(args.subject) IN
    fs.spacing[SubcorticalInput(args)]
        # fs.spacing[atlas_vol_path(global, args.work_dir, get_subject(args.subject))]

\* every validation check of the settings passes
ValidationOK(args) ==
    /\ OutputDirWritable(args)
    /\ CheckedInputs(args) \subseteq fs.files
    /\ (SpacingMismatch(args) => args.resample)

\* how many commands a complete run issues
PlannedCommands(args) ==
    3 + (IF args.resample THEN 1 ELSE 0) + (IF args.dilate # None THEN 1 ELSE 0)

AllCommandsSucceeded ==
    /\ Len(cmds) = PlannedCommands(arguments)
    /\ \A i \in 1..Len(cmds) : cmds[i].rc = 0

IsMapping(c) == c.argv[2] = "-volume-to-surface-mapping"
IsResample(c) == c.argv[2] = "-volume-affine-resample"
IsDense(c) == c.argv[2] \in {"-cifti-create-dense-scalar", "-cifti-create-dense-timeseries"}
IsDilate(c) == c.argv[2] = "-cifti-dilate"

\* the hemisphere of a mapping command, read off the metric file it writes
HemiOf(c) == IF c.argv[5] = join2(TempDirPath, "L.func.gii") THEN "L" ELSE "R"

\* the kind of each command issued, in order
Kinds ==
    [i \in 1..Len(cmds) |->
        IF IsMapping(cmds[i]) THEN "map_" \o HemiOf(cmds[i])
        ELSE IF IsResample(cmds[i]) THEN "resample"
        ELSE IF IsDense(cmds[i]) THEN "dense"
        ELSE IF IsDilate(cmds[i]) THEN "dilate" ELSE "other"]

\* the files a command writes
Writes(c) ==
    IF IsMapping(c) THEN {c.argv[5]}
    ELSE IF IsResample(c) THEN {c.argv[7]}
    ELSE IF IsDense(c) THEN {c.argv[3]}
    ELSE IF IsDilate(c) THEN {c.argv[7]} ELSE {}

Elements(seq) == {seq[i] : i \in 1..Len(seq)}

\* ------------------------------------------------------------- claims

\* C1 as stated: once a command has been issued, every input path of the
\* run's commands -- the two input volumes, the atlas, the two ROI masks and
\* the surface meshes (midthickness, and white and pial unless integer-labels
\* is set) -- is on the disk; and a run that ended with one of them absent
\* exited with code 1 without issuing a command.
C1_AllInputsChecked ==
    /\ cmds # <<>> => RunInputs(arguments) \subseteq fs.files
    /\ (pc = "done" /\ ~(RunInputs(arguments) \subseteq fs.files))
           => (exitcode = 1 /\ cmds = <<>>)

\* C1 amended: the same for the paths UserSettings looks for -- the surface
\* input volume, the subcortical input volume, the atlas volume and the two
\* ROI masks; the surface meshes are not among them.
C1_CheckedInputsExist ==
    /\ cmds # <<>> => CheckedInputs(arguments) \subseteq fs.files
    /\ (pc # "start" /\ ~(CheckedInputs(arguments) \subseteq fs.files))
           => (pc = "done" /\ exitcode = 1 /\ cmds = <<>>)

\* a run that ended before any command because a ROI mask was absent
C1_Witness ==
    /\ pc = "done" /\ exitcode = 1 /\ cmds = <<>>
    /\ OutputDirWritable(arguments)
    /\ \E roi \in Templates(arguments) : roi \notin fs.files

\* C2: a command that exits non-zero is the last command of the run: no
\* later command is issued and the failed one is not issued again.
C2_FailureEndsSequence ==
    \A i \in 1..Len(cmds) : cmds[i].rc # 0 => i = Len(cmds)

\* C2, step by step: after a failed command the list of commands never grows.
C2_NoCommandAfterFailure ==
    [][(cmds # <<>> /\ cmds[Len(cmds)].rc # 0) => cmds' = cmds]_vars

\* the resample command failed and the run ended there
C2_Witness ==
    /\ pc = "done"
    /\ Len(cmds) = 3 /\ IsResample(cmds[3]) /\ cmds[3].rc # 0
    /\ arguments.dilate # None

\* C3: the exit code is 0 exactly when the validation passed and every
\* command of the run succeeded, and 1 when a validation check failed or a
\* command exited non-zero; the process has no exit code before it ends.
C3_ExitCode ==
    /\ pc # "done" => exitcode = -1
    /\ pc = "done" =>
         /\ exitcode \in {0, 1}
         /\ exitcode = 0 <=> (ValidationOK(arguments) /\ AllCommandsSucceeded)
         /\ (~ValidationOK(arguments) \/ \E i \in 1..Len(cmds) : cmds[i].rc # 0)
                => exitcode = 1

\* a run that ended with code 0 after five commands
C3_Witness ==
    /\ pc = "done" /\ exitcode = 0 /\ Len(cmds) = 5

\* C4: with voxel sizes that differ and no resample flag, no command is ever
\* issued and the run ends with a non-zero code; with the resample flag the
\* difference does not stop the settings from being constructed, and the run
\* ends with code 0 when its commands succeed.
C4_SpacingMismatch ==
    /\ (SpacingMismatch(arguments) /\ ~arguments.resample) =>
         /\ cmds = <<>>
         /\ pc \in {"start", "done"}
         /\ pc = "done" => exitcode = 1
    /\ ( /\ SpacingMismatch(arguments) /\ arguments.resample
         /\ OutputDirWritable(arguments)
         /\ CheckedInputs(arguments) \subseteq fs.files
         /\ pc # "start" ) =>
         /\ ~settings.exited
         /\ (pc = "done" /\ AllCommandsSucceeded) => exitcode = 0

\* a run whose only fault was the voxel size, ended with code 1
C4_Witness ==
    /\ pc = "done" /\ exitcode = 1
    /\ SpacingMismatch(arguments) /\ ~arguments.resample
    /\ OutputDirWritable(arguments)
    /\ CheckedInputs(arguments) \subseteq fs.files

\* C5: when the process has ended, the temporary directory does not exist.
C5_TempDirRemoved == pc = "done" => ~tmpdir

\* a run ended by a failed command, its temporary directory gone
C5_Witness ==
    /\ pc = "done" /\ ~tmpdir
    /\ cmds # <<>> /\ cmds[Len(cmds)].rc # 0

C7_ModeFollowsIntegerLabels ==
    \A i \in 1..Len(cmds) :
        LET argv == cmds[i].argv IN
        /\ IsMapping(cmds[i]) =>
             IF arguments.integer_labels
             THEN /\ Len(argv) = 6 /\ argv[6] = "-enclosing"
                  /\ "-ribbon-constrained" \notin Elements(argv)
             ELSE /\ Len(argv) = 8 /\ argv[6] = "-ribbon-constrained"
                  /\ argv[7] = surf_file(settings, HemiOf(cmds[i]), "white")
                  /\ argv[8] = surf_file(settings, HemiOf(cmds[i]), "pial")
                  /\ "-enclosing" \notin Elements(argv)
        /\ IsDilate(cmds[i]) =>
             ("-nearest" \in Elements(argv) <=> arguments.integer_labels)

\* a dilation command issued for integer labels, after both mappings
C7_Witness ==
    /\ arguments.integer_labels
    /\ cmds # <<>> /\ IsDilate(cmds[Len(cmds)])
    /\ cmds[Len(cmds)].argv[12] = "-nearest"

\* C8 as stated: with the resample flag, a resample command precedes every
\* surface-mapping command, and the mapping commands read the resampled
\* volume.
C8_ResampleBeforeProjecting ==
    arguments.resample =>
        \A i \in 1..Len(cmds) :
            IsMapping(cmds[i]) =>
                /\ \E j \in 1..(i - 1) : IsResample(cmds[j])
                /\ cmds[i].argv[3] = join2(TempDirPath, "input_nii_r.nii.gz")

\* C9: for the group-average subject, two runs that differ in the work
\* directory alone construct their settings alike -- both exit or neither --
\* and resolve the same surface directory, mesh names, atlas volume and ROI
\* masks, which lie under the fixed global locations.
C9_GroupAvgIgnoresWorkDir ==
    ( /\ arguments.subject = "HCP_S1200_GroupAvg"
      /\ settings # Unset /\ settings2 # Unset ) =>
        /\ settings.exited = settings2.exited
        /\ ~settings.exited =>
             /\ settings.surf_dir = settings2.surf_dir
             /\ settings.surf_dir = find_HCP_S1200_GroupAvg
             /\ settings.subject = settings2.subject
             /\ settings.surf_mesh = settings2.surf_mesh
             /\ \A hemi \in {"L", "R"}, kind \in {"midthickness", "white", "pial"} :
                    surf_file(settings, hemi, kind) = surf_file(settings2, hemi, kind)
             /\ settings.atlas_vol = settings2.atlas_vol
             /\ settings.surf_roi_L = settings2.surf_roi_L
             /\ settings.surf_roi_R = settings2.surf_roi_R
             /\ {settings.atlas_vol, settings.surf_roi_L, settings.surf_roi_R}
                    \cap (Templates([arguments EXCEPT !.subject = "sub01"])
                          \cup Templates([arguments2 EXCEPT !.subject = "sub01"])) = {}

\* both runs of the group-average subject constructed, in two work directories
C9_Witness ==
    /\ arguments.subject = "HCP_S1200_GroupAvg"
    /\ settings # Unset /\ settings2 # Unset
    /\ ~settings.exited /\ ~settings2.exited
    /\ settings.work_dir # settings2.work_dir

\* the commands a complete run issues, in order
ExpectedKinds(args) ==
    <<"map_L", "map_R">>
        \o (IF args.resample THEN <<"resample">> ELSE <<>>)
        \o <<"dense">>
        \o (IF args.dilate # None THEN <<"dilate">> ELSE <<>>)

====
